---- MODULE Spec2Model ----
(***************************************************************************)
(* Strategic maze grading core of waifuai/ai-benchmarks:                   *)
(*   benchmarks/maze/maze_parsing.py      parser                           *)
(*   benchmarks/maze/strategic_maze.py    maze model                       *)
(*   benchmarks/maze/pathfinding.py       breadth-first pathfinder         *)
(*   benchmarks/maze/strategic_evaluator.py  grade_strategic_maze          *)
(* A grid is a sequence of rows, a row a sequence of one-character         *)
(* strings.  Positions are <<r, c>> with the 0-based indices of the code.  *)
(***************************************************************************)
EXTENDS Integers, Sequences, FiniteSets, TLC

VARIABLES
  text,             \* grade_strategic_maze: maze_text, a sequence of lines
  report,           \* grade_strategic_maze: the returned dict
  grid,             \* StrategicMaze.grid
  start,            \* solve_with_strategic_elements: start
  end,              \* solve_with_strategic_elements: end
  queue,            \* deque of [state, path]
  visited,          \* set of search states
  iter_count,       \* loop counter
  strategic_moves,  \* usage counters
  result,           \* the returned solution descriptor
  pc,               \* "grade" | "loop" | "returned" | "done" | "pool"
  first_run,        \* grid, descriptor and report of an earlier run on text
  pool              \* run_all_models: the grading calls of the thread pool

vars == <<text, report, grid, start, end, queue, visited, iter_count,
          strategic_moves, result, pc, first_run, pool>>

\* what a step of one grading call leaves alone
others == <<first_run, pool>>

(***************************************************************************)
(* Characters                                                              *)
(***************************************************************************)
LowerSeq == <<"a","b","c","d","e","f","g","h","i","j","k","l","m",
              "n","o","p","q","r","s","t","u","v","w","x","y","z">>
UpperSeq == <<"A","B","C","D","E","F","G","H","I","J","K","L","M",
              "N","O","P","Q","R","S","T","U","V","W","X","Y","Z">>

\* 'a' <= char <= 'z'
IsLower(ch) == \E i \in 1..26 : LowerSeq[i] = ch

\* 'A' <= char <= 'Z'
IsUpper(ch) == \E i \in 1..26 : UpperSeq[i] = ch

\* char.lower() of an uppercase letter; other characters are unchanged
Lower(ch) ==
  IF IsUpper(ch) THEN LowerSeq[CHOOSE i \in 1..26 : UpperSeq[i] = ch] ELSE ch

\* char.upper()
Upper(ch) ==
  IF IsLower(ch) THEN UpperSeq[CHOOSE i \in 1..26 : LowerSeq[i] = ch] ELSE ch

\* the letters the pathfinder does not treat as key doors
ReservedUpper == {"S","E","T","K","D","O","Q","F","G","H","X","Y","Z"}

\* 'A' <= char <= 'Z' and char not in [...]  : a door that needs its key
IsPlainDoor(ch) == IsUpper(ch) /\ ch \notin ReservedUpper

(***************************************************************************)
(* constants.py                                                            *)
(***************************************************************************)
MAX_ROWS == 64
MAX_COLS == 64
MAX_CELLS == MAX_ROWS * MAX_COLS

VALID_MAZE_CHARS ==
  {"#","S","E","K","D","T","O","Q","s","B","F","G","H","X","Y","Z"}
    \cup {LowerSeq[i] : i \in 1..26} \cup {UpperSeq[i] : i \in 1..26}

(***************************************************************************)
(* strategic_maze.py                                                       *)
(***************************************************************************)
Rows(g) == Len(g)
Cols(g) == IF Len(g) > 0 THEN Len(g[1]) ELSE 0

\* Python index of a sequence of length n: negative indices count from the end
PyIndex(i, n) == IF i < 0 THEN i + n ELSE i

\* StrategicMaze.get_cell
get_cell(g, pos) ==
  LET r == pos[1]
      c == pos[2]
  IN IF r >= Rows(g) THEN " "
     ELSE LET row == g[PyIndex(r, Rows(g)) + 1]
          IN IF c >= Len(row) THEN " " ELSE row[PyIndex(c, Len(row)) + 1]

\* is_traversable without the test of the grid bounds
is_traversable_unbounded(g, pos) == get_cell(g, pos) # "#"

\* StrategicMaze.is_traversable
is_traversable(g, pos) ==
  LET r == pos[1]
      c == pos[2]
  IN /\ 0 <= r /\ r < Rows(g)
     /\ 0 <= c /\ c < Len(g[r + 1])
     /\ g[r + 1][c + 1] # "#"

\* the cells the scans of the code visit, in row-major order: for r in
\* range(rows), for c in range(cols), skipping c >= len(grid[r])
ScanOrder(g) ==
  LET w == Cols(g)
  IN SelectSeq([k \in 1..(Rows(g) * w) |-> <<(k - 1) \div w, (k - 1) % w>>],
               LAMBDA p : p[2] < Len(g[p[1] + 1]))

\* positions holding ch, in discovery order
PositionsOf(g, ch) ==
  SelectSeq(ScanOrder(g), LAMBDA p : g[p[1] + 1][p[2] + 1] = ch)

\* StrategicMaze.teleporters_o / teleporters_q: position -> discovery number
teleporters_o(g) == PositionsOf(g, "O")
teleporters_q(g) == PositionsOf(g, "Q")

\* teleport_destinations that sends every origin to the first destination
teleport_destinations_first(g, pos) ==
  LET os == teleporters_o(g)
      qs == teleporters_q(g)
  IN IF (\E i \in 1..Len(os) : os[i] = pos) /\ qs # <<>> THEN <<qs[1]>> ELSE <<>>

\* StrategicMaze.teleport_destinations
teleport_destinations(g, pos) ==
  LET os == teleporters_o(g)
      qs == teleporters_q(g)
  IN IF \E i \in 1..Len(os) : os[i] = pos
     THEN LET n == CHOOSE i \in 1..Len(os) : os[i] = pos
          IN IF n <= Len(qs) THEN <<qs[n]>> ELSE <<>>
     ELSE <<>>

(***************************************************************************)
(* pathfinding.py                                                          *)
(***************************************************************************)
MaxIterFactor == 20

\* max_iter with twice the factor
max_iter_double(g) == Rows(g) * Cols(g) * MaxIterFactor * 2

\* max_iter = self.rows * self.cols * 20
max_iter(g) == Rows(g) * Cols(g) * MaxIterFactor

\* the four directions, in the order of the code
Dirs == << <<-1, 0>>, <<1, 0>>, <<0, -1>>, <<0, 1>> >>

\* a search state (r, c, keys, switches, used_teles)
State(r, c, keys, switches, used) == <<r, c, keys, switches, used>>

\* _is_valid_move without the key test of plain doors
_is_valid_move_no_key(g, pos, keys, switches) ==
  IF ~is_traversable(g, pos) THEN FALSE
  ELSE LET char == get_cell(g, pos)
       IN IF char = "#" THEN FALSE
          ELSE IF IsPlainDoor(char) THEN TRUE
          ELSE IF char = "X" THEN ~(Cardinality(keys) < 2)
          ELSE IF char = "Y" THEN switches # {}
          ELSE IF char = "Z" THEN ~(Cardinality(keys) < 1 \/ switches = {})
          ELSE TRUE

\* StrategicPathfinder._is_valid_move
_is_valid_move(g, pos, keys, switches) ==
  IF ~is_traversable(g, pos) THEN FALSE
  ELSE LET char == get_cell(g, pos)
       IN IF char = "#" THEN FALSE
          ELSE IF IsPlainDoor(char) THEN Lower(char) \in keys
          ELSE IF char = "X" THEN ~(Cardinality(keys) < 2)
          ELSE IF char = "Y" THEN switches # {}
          ELSE IF char = "Z" THEN ~(Cardinality(keys) < 1 \/ switches = {})
          ELSE TRUE

\* _queue_state that puts the new entry at the head of the queue
_queue_state_front(acc, r, c, keys, switches, used, path) ==
  LET new_state == State(r, c, keys, switches, used)
  IN IF new_state \in acc.visited THEN acc
     ELSE [acc EXCEPT !.visited = @ \cup {new_state},
                      !.queue = <<[state |-> new_state,
                                   path |-> Append(path, <<r, c>>)]>> \o @]

\* StrategicPathfinder._queue_state, on the search record
\* acc = [queue, visited, moves]
_queue_state(acc, r, c, keys, switches, used, path) ==
  LET new_state == State(r, c, keys, switches, used)
  IN IF new_state \in acc.visited THEN acc
     ELSE [acc EXCEPT !.visited = @ \cup {new_state},
                      !.queue = Append(@, [state |-> new_state,
                                           path |-> Append(path, <<r, c>>)])]

\* _explore_possible_moves, part 1: regular movement from direction i on
RECURSIVE ExploreWalk(_, _, _, _, _, _, _, _, _)
ExploreWalk(acc, g, i, r, c, keys, switches, used, path) ==
  IF i > Len(Dirs) THEN acc
  ELSE LET nr == r + Dirs[i][1]
           nc == c + Dirs[i][2]
           next == IF _is_valid_move(g, <<nr, nc>>, keys, switches)
                   THEN _queue_state(acc, nr, nc, keys, switches, used, path)
                   ELSE acc
       IN ExploreWalk(next, g, i + 1, r, c, keys, switches, used, path)

\* TeleportTo without marking the origin consumed
TeleportTo_unmarked(acc, g, dest, r, c, keys, switches, used, path) ==
  IF ~is_traversable(g, dest) THEN acc
  ELSE LET new_state == State(dest[1], dest[2], keys, switches, used)
       IN IF new_state \in acc.visited THEN acc
          ELSE [acc EXCEPT
                  !.visited = @ \cup {new_state},
                  !.queue = Append(@, [state |-> new_state,
                                       path |-> Append(path, dest)]),
                  !.moves.teleports = @ + 1]

\* _explore_possible_moves, part 2: one teleport destination
TeleportTo(acc, g, dest, r, c, keys, switches, used, path) ==
  IF ~is_traversable(g, dest) THEN acc
  ELSE LET new_state == State(dest[1], dest[2], keys, switches,
                              used \cup {<<r, c>>})
       IN IF new_state \in acc.visited THEN acc
          ELSE [acc EXCEPT
                  !.visited = @ \cup {new_state},
                  !.queue = Append(@, [state |-> new_state,
                                       path |-> Append(path, dest)]),
                  !.moves.teleports = @ + 1]

RECURSIVE ExploreTeleport(_, _, _, _, _, _, _, _, _, _)
ExploreTeleport(acc, g, dests, i, r, c, keys, switches, used, path) ==
  IF i > Len(dests) THEN acc
  ELSE ExploreTeleport(
         TeleportTo(acc, g, dests[i], r, c, keys, switches, used, path),
         g, dests, i + 1, r, c, keys, switches, used, path)

\* PushTo that queues the landing state without looking it up in visited
PushTo_unchecked(acc, g, d, r, c, keys, switches, used, path) ==
  LET push_pos == <<r + d[1], c + d[2]>>
      land_pos == <<r + 2 * d[1], c + 2 * d[2]>>
  IN IF /\ get_cell(g, push_pos) = " "
        /\ is_traversable(g, land_pos)
        /\ get_cell(g, land_pos) # "#"
     THEN LET new_state == State(land_pos[1], land_pos[2], keys, switches, used)
          IN [acc EXCEPT
                !.moves.blocks_moved = @ + 1,
                !.visited = @ \cup {new_state},
                !.queue = Append(@, [state |-> new_state,
                                     path |-> path \o <<push_pos, land_pos>>])]
     ELSE acc

\* _explore_possible_moves, part 3: one push direction of a movable block
PushTo(acc, g, d, r, c, keys, switches, used, path) ==
  LET push_pos == <<r + d[1], c + d[2]>>
      land_pos == <<r + 2 * d[1], c + 2 * d[2]>>
  IN IF /\ get_cell(g, push_pos) = " "
        /\ is_traversable(g, land_pos)
        /\ get_cell(g, land_pos) # "#"
     THEN LET new_state == State(land_pos[1], land_pos[2], keys, switches, used)
              counted == [acc EXCEPT !.moves.blocks_moved = @ + 1]
          IN IF new_state \in acc.visited THEN counted
             ELSE [counted EXCEPT
                     !.visited = @ \cup {new_state},
                     !.queue = Append(@, [state |-> new_state,
                                          path |-> path \o <<push_pos, land_pos>>])]
     ELSE acc

RECURSIVE ExplorePush(_, _, _, _, _, _, _, _, _)
ExplorePush(acc, g, i, r, c, keys, switches, used, path) ==
  IF i > Len(Dirs) THEN acc
  ELSE ExplorePush(PushTo(acc, g, Dirs[i], r, c, keys, switches, used, path),
                   g, i + 1, r, c, keys, switches, used, path)

\* _explore_possible_moves that jumps from an origin whether used or not
_explore_possible_moves_reuse(acc, g, r, c, keys, switches, used, path) ==
  LET curr_char == get_cell(g, <<r, c>>)
      walked == ExploreWalk(acc, g, 1, r, c, keys, switches, used, path)
      teleported ==
        IF curr_char = "O"
        THEN ExploreTeleport(walked, g, teleport_destinations(g, <<r, c>>), 1,
                             r, c, keys, switches, used, path)
        ELSE walked
  IN IF curr_char = "B"
     THEN ExplorePush(teleported, g, 1, r, c, keys, switches, used, path)
     ELSE teleported

\* StrategicPathfinder._explore_possible_moves
_explore_possible_moves(acc, g, r, c, keys, switches, used, path) ==
  LET curr_char == get_cell(g, <<r, c>>)
      walked == ExploreWalk(acc, g, 1, r, c, keys, switches, used, path)
      teleported ==
        IF curr_char = "O" /\ <<r, c>> \notin used
        THEN ExploreTeleport(walked, g, teleport_destinations(g, <<r, c>>), 1,
                             r, c, keys, switches, used, path)
        ELSE walked
  IN IF curr_char = "B"
     THEN ExplorePush(teleported, g, 1, r, c, keys, switches, used, path)
     ELSE teleported

\* lines 109-119: key/door pairs counted on the final path
used_pairs(g, final_path, final_keys) ==
  LET on_path == {get_cell(g, final_path[i]) : i \in 1..Len(final_path)}
  IN Cardinality({ch \in on_path : IsPlainDoor(ch) /\ Lower(ch) \in final_keys})

\* lines 121-123: teleporter origins counted on the final path
path_teleports(g, final_path, final_teles) ==
  Cardinality({i \in 1..Len(final_path) :
                 /\ get_cell(g, final_path[i]) = "O"
                 /\ final_path[i] \in final_teles})

\* lines 69-77: the descriptor returned when the wall clock runs out
TimeoutResult(moves) ==
  [solvable |-> FALSE, path |-> <<>>, path_length |-> 0,
   keys_collected |-> <<>>, chain_length |-> 0, timeout |-> TRUE,
   strategic_usage |-> moves]

\* list(final_keys): the keys in the iteration order of a set of strings,
\* which follows the string hashes of the interpreter process; any order of
\* the keys can come out
ListsOf(S) ==
  {l \in [1..Cardinality(S) -> S] : \A x \in S : \E i \in 1..Cardinality(S) : l[i] = x}

\* FinalResult that reports every switch of a solved grid as activated
FinalResult_all_switches(g, solved, final_path, final_keys, final_switches, final_teles, moves, key_list) ==
  [solvable |-> solved,
   path |-> final_path,
   path_length |-> Len(final_path),
   keys_collected |-> key_list,
   chain_length |-> IF solved THEN used_pairs(g, final_path, final_keys) ELSE 0,
   switches_activated |->
     IF solved
     THEN {PositionsOf(g, "s")[i] : i \in 1..Len(PositionsOf(g, "s"))}
     ELSE final_switches,
   teleporters_used |-> final_teles,
   strategic_usage |->
     IF solved
     THEN [moves EXCEPT !.teleports = @ + path_teleports(g, final_path, final_teles)]
     ELSE moves,
   timeout |-> FALSE]

\* FinalResult that reports the number of moves as path_length
FinalResult_steps(g, solved, final_path, final_keys, final_switches, final_teles, moves, key_list) ==
  [solvable |-> solved,
   path |-> final_path,
   path_length |-> Len(final_path) - 1,
   keys_collected |-> key_list,
   chain_length |-> IF solved THEN used_pairs(g, final_path, final_keys) ELSE 0,
   switches_activated |-> final_switches,
   teleporters_used |-> final_teles,
   strategic_usage |->
     IF solved
     THEN [moves EXCEPT !.teleports = @ + path_teleports(g, final_path, final_teles)]
     ELSE moves,
   timeout |-> FALSE]

\* lines 109-135: the descriptor returned after the loop; key_list is
\* list(final_keys)
FinalResult(g, solved, final_path, final_keys, final_switches, final_teles, moves, key_list) ==
  [solvable |-> solved,
   path |-> final_path,
   path_length |-> Len(final_path),
   keys_collected |-> key_list,
   chain_length |-> IF solved THEN used_pairs(g, final_path, final_keys) ELSE 0,
   switches_activated |-> final_switches,
   teleporters_used |-> final_teles,
   strategic_usage |->
     IF solved
     THEN [moves EXCEPT !.teleports = @ + path_teleports(g, final_path, final_teles)]
     ELSE moves,
   timeout |-> FALSE]

NoResult == [none |-> TRUE]
NoReport == [none |-> TRUE]

\* lines 27-64: the search state at the first test of the loop condition
InitialState(s) == State(s[1], s[2], {}, {}, {})
InitialQueue(s) == <<[state |-> InitialState(s), path |-> <<s>>]>>
InitialMoves == [teleports |-> 0, switches_activated |-> 0, blocks_moved |-> 0]

\* new_keys that holds the key picked up last only
new_keys_latest(g, r, c, keys) ==
  LET curr_char == get_cell(g, <<r, c>>)
  IN IF IsLower(curr_char) THEN {curr_char} ELSE keys

\* lines 91-95: keys held after standing on (r, c)
new_keys(g, r, c, keys) ==
  LET curr_char == get_cell(g, <<r, c>>)
  IN IF IsLower(curr_char) THEN keys \cup {curr_char} ELSE keys

\* new_switches with the activation left out
new_switches_none(g, r, c, switches) == switches

\* lines 97-100: switches activated after standing on (r, c)
new_switches(g, r, c, switches) ==
  IF get_cell(g, <<r, c>>) = "s" THEN switches \cup {<<r, c>>} ELSE switches

\* while queue and iter_count < max_iter
LoopRuns == queue # <<>> /\ iter_count < max_iter(grid)

\* SearchFrame of a search that takes a pushed block off its cell
SearchFrame_block_moved ==
  /\ grid' = LET st == Head(queue).state
             IN IF get_cell(grid, <<st[1], st[2]>>) = "B"
                THEN [grid EXCEPT ![st[1] + 1][st[2] + 1] = " "]
                ELSE grid
  /\ UNCHANGED <<text, report, start, end, result, pc>>

\* what an expansion leaves alone: lines 91-107 and 137-182 assign to no
\* attribute of the maze, whose grid rows are immutable strings, and the
\* block push only computes positions
SearchFrame == UNCHANGED <<text, report, grid, start, end, result, pc>>

\* lines 66-107, an iteration that pops a state away from the end cell
Expand ==
  /\ pc = "loop"
  /\ LoopRuns
  /\ LET st == Head(queue).state
         path == Head(queue).path
         r == st[1]
         c == st[2]
         curr_char == get_cell(grid, <<r, c>>)
         moves == IF curr_char = "s"
                  THEN [strategic_moves EXCEPT !.switches_activated = @ + 1]
                  ELSE strategic_moves
         acc == _explore_possible_moves(
                  [queue |-> Tail(queue), visited |-> visited, moves |-> moves],
                  grid, r, c, new_keys(grid, r, c, st[3]),
                  new_switches(grid, r, c, st[4]), st[5], path)
     IN /\ <<r, c>> # end
        /\ iter_count' = iter_count + 1
        /\ queue' = acc.queue
        /\ visited' = acc.visited
        /\ strategic_moves' = acc.moves
  /\ SearchFrame
  /\ UNCHANGED others

\* lines 66-89 and 109-135, the iteration that pops the end cell
ReachEnd ==
  /\ pc = "loop"
  /\ LoopRuns
  /\ LET st == Head(queue).state
     IN /\ <<st[1], st[2]>> = end
        /\ \E key_list \in ListsOf(st[3]) :
             result' = FinalResult(grid, TRUE, Head(queue).path, st[3], st[4],
                                   st[5], strategic_moves, key_list)
  /\ iter_count' = iter_count + 1
  /\ queue' = Tail(queue)
  /\ pc' = "returned"
  /\ UNCHANGED <<text, report, grid, start, end, visited, strategic_moves>>
  /\ UNCHANGED others

\* lines 67-77, the wall-clock test of an iteration fires
TimeOut ==
  /\ pc = "loop"
  /\ LoopRuns
  /\ result' = TimeoutResult(strategic_moves)
  /\ pc' = "returned"
  /\ UNCHANGED <<text, report, grid, start, end, queue, visited, iter_count,
                 strategic_moves>>
  /\ UNCHANGED others

\* lines 66 and 109-135, the loop condition fails
Exhaust ==
  /\ pc = "loop"
  /\ ~LoopRuns
  /\ result' = FinalResult(grid, FALSE, <<>>, {}, {}, {}, strategic_moves, <<>>)
  /\ pc' = "returned"
  /\ UNCHANGED <<text, report, grid, start, end, queue, visited, iter_count,
                 strategic_moves>>
  /\ UNCHANGED others

(***************************************************************************)
(* maze_parsing.py: positions and counts                                   *)
(***************************************************************************)
\* max(len(row) for row in rows), 0 without rows
MaxWidth(rows) ==
  IF rows = <<>> THEN 0
  ELSE CHOOSE m \in {Len(rows[i]) : i \in 1..Len(rows)} :
         \A i \in 1..Len(rows) : Len(rows[i]) <= m

\* for i, row in enumerate(grid): for j, char in enumerate(row)
AllCells(g) ==
  LET w == MaxWidth(g)
  IN SelectSeq([k \in 1..(Len(g) * w) |-> <<(k - 1) \div w, (k - 1) % w>>],
               LAMBDA p : p[2] < Len(g[p[1] + 1]))

\* find_position
find_position(g, target) ==
  LET hits == SelectSeq(AllCells(g), LAMBDA p : g[p[1] + 1][p[2] + 1] = target)
  IN IF hits = <<>> THEN <<-1, -1>> ELSE hits[1]

\* count_elements, for one character
count_elements(g, ch) ==
  Len(SelectSeq(AllCells(g), LAMBDA p : g[p[1] + 1][p[2] + 1] = ch))

(***************************************************************************)
(* maze_parsing.py: parse_maze_from_text.  A text is the sequence of its   *)
(* lines, a line the sequence of its characters.                           *)
(***************************************************************************)
\* str.strip() from the right and from both ends
RECURSIVE StripRight(_)
StripRight(l) ==
  IF l = <<>> THEN <<>>
  ELSE IF l[Len(l)] = " " THEN StripRight(SubSeq(l, 1, Len(l) - 1))
  ELSE l

RECURSIVE Strip(_)
Strip(l) ==
  IF l = <<>> THEN <<>>
  ELSE IF Head(l) = " " THEN Strip(Tail(l))
  ELSE StripRight(l)

StartsWith(l, prefix) ==
  Len(l) >= Len(prefix) /\ SubSeq(l, 1, Len(prefix)) = prefix

EndsWith(l, suffix) ==
  Len(l) >= Len(suffix) /\ SubSeq(l, Len(l) - Len(suffix) + 1, Len(l)) = suffix

\* [line.strip() for line in ... if line.strip()]
StrippedRows(lines) ==
  SelectSeq([i \in 1..Len(lines) |-> Strip(lines[i])], LAMBDA l : l # <<>>)

\* the grave accent, written as a token of its own
Backtick == "grave"

Fence == <<Backtick, Backtick, Backtick>>
FenceMarkdown == Fence \o <<"m", "a", "r", "k", "d", "o", "w", "n">>

\* a fence, an optional 'markdown' and the newline end line i
OpensBlock(lines, i) ==
  /\ i < Len(lines)
  /\ EndsWith(lines[i], Fence) \/ EndsWith(lines[i], FenceMarkdown)

\* the lines j that can close a block opened on line i: the shortest
\* group(1) ends before the first newline that a fence follows
Closers(lines, i) ==
  {j \in (i + 2)..Len(lines) : StartsWith(lines[j], Fence)}

Min(S) == CHOOSE x \in S : \A y \in S : x <= y

\* re.search(code_block_pattern, text, re.DOTALL): the lines of group(1),
\* wrapped in a tuple, or <<>> without a match
code_block_match(lines) ==
  LET opens == {i \in 1..Len(lines) : OpensBlock(lines, i) /\ Closers(lines, i) # {}}
  IN IF opens = {} THEN <<>>
     ELSE LET i == Min(opens)
          IN <<SubSeq(lines, i + 1, Min(Closers(lines, i)) - 1)>>

\* any(char in line for char in [...]): a maze letter, '#' or a space
MazeLike(line) ==
  \E k \in 1..Len(line) : line[k] \in VALID_MAZE_CHARS \cup {" "}

\* line.upper()
UpperLine(line) == [k \in 1..Len(line) |-> Upper(line[k])]

\* lines 66-76: the lines strategy 2 keeps
KeptLine(line) ==
  /\ line # <<>>
  /\ MazeLike(line)
  /\ Len(line) >= 3
  /\ ~StartsWith(line, <<"#", "#">>)
  /\ ~StartsWith(UpperLine(line), <<"T", "I", "M", "E", ":">>)

maze_lines(lines) ==
  SelectSeq([i \in 1..Len(lines) |-> Strip(lines[i])], KeptLine)

\* normalize_maze_grid without the padding
normalize_maze_grid_ragged(rows) == StrippedRows(rows)

\* normalize_maze_grid, of rows of which one is not blank
normalize_maze_grid(rows) ==
  LET cleaned_rows == StrippedRows(rows)
      max_width == MaxWidth(cleaned_rows)
  IN [i \in 1..Len(cleaned_rows) |->
        cleaned_rows[i] \o [k \in 1..(max_width - Len(cleaned_rows[i])) |-> " "]]

\* validate_maze_characters that lets every character pass
validate_maze_characters_lenient(g) == TRUE

\* validate_maze_characters: no exception is raised
validate_maze_characters(g) ==
  \A i \in 1..Len(g) : \A k \in 1..Len(g[i]) :
    g[i][k] \in VALID_MAZE_CHARS \/ g[i][k] = " "

ParseError(kind) == [ok |-> FALSE, error |-> kind]

\* parse_rows that normalizes and validates ahead of the size checks
parse_rows_validate_first(raw_rows) ==
  IF Len(raw_rows) = 0 THEN ParseError("no_rows")
  ELSE IF ~validate_maze_characters(normalize_maze_grid(raw_rows))
  THEN ParseError("invalid_chars")
  ELSE IF Len(raw_rows) > MAX_ROWS THEN ParseError("too_tall")
  ELSE IF MaxWidth(raw_rows) > MAX_COLS THEN ParseError("too_wide")
  ELSE IF Len(raw_rows) * MaxWidth(raw_rows) > MAX_CELLS THEN ParseError("too_large")
  ELSE [ok |-> TRUE, grid |-> normalize_maze_grid(raw_rows)]

\* lines 86-109, from the extracted rows on
parse_rows(raw_rows) ==
  IF Len(raw_rows) = 0 THEN ParseError("no_rows")
  ELSE IF Len(raw_rows) > MAX_ROWS THEN ParseError("too_tall")
  ELSE IF MaxWidth(raw_rows) > MAX_COLS THEN ParseError("too_wide")
  ELSE IF Len(raw_rows) * MaxWidth(raw_rows) > MAX_CELLS THEN ParseError("too_large")
  ELSE LET normalized_grid == normalize_maze_grid(raw_rows)
       IN IF validate_maze_characters(normalized_grid)
          THEN [ok |-> TRUE, grid |-> normalized_grid]
          ELSE ParseError("invalid_chars")

\* parse_maze_from_text: [ok |-> TRUE, grid] or [ok |-> FALSE, error]
parse_maze_from_text(lines) ==
  IF StrippedRows(lines) = <<>> THEN ParseError("empty")
  ELSE LET block == code_block_match(lines)
       IN IF block # <<>>
          THEN IF StrippedRows(block[1]) = <<>> THEN ParseError("no_content")
               ELSE parse_rows(StrippedRows(block[1]))
          ELSE IF maze_lines(lines) = <<>> THEN ParseError("no_maze_like")
               ELSE parse_rows(StrippedRows(maze_lines(lines)))

(***************************************************************************)
(* The grids the pathfinder is run on                                      *)
(***************************************************************************)
MaxLen == 4

CorridorChars == {"#", " ", "a", "b", "s", "A", "B", "X", "Y", "Z", "O", "Q"}

\* a one-row grid of n cells: S at s, E at e, the other cells from fill
Corridor(n, s, e, fill) ==
  << [i \in 1..n |->
        IF i = s THEN "S"
        ELSE IF i = e THEN "E"
        ELSE fill[i - (IF s < i THEN 1 ELSE 0) - (IF e < i THEN 1 ELSE 0)]] >>

\* the cells S and E can take among n cells
Placements(n) == {p \in (1..n) \X (1..n) : p[1] # p[2]}

\* two-row grids of BoxCols columns over the key, door and switch characters
BoxCols == 2

BoxChars == {"#", " ", "a", "A", "s", "Y"}

Box(w, s, e, fill) ==
  LET cell(k) ==
        IF k = s THEN "S"
        ELSE IF k = e THEN "E"
        ELSE fill[k - (IF s < k THEN 1 ELSE 0) - (IF e < k THEN 1 ELSE 0)]
  IN << [c \in 1..w |-> cell(c)], [c \in 1..w |-> cell(w + c)] >>

ExtraGrids ==
  { << <<"S","b","B"," ","A","E">> >>,
    << <<"S","b","B"," ","A","a","E">> >>,
    << <<"S","b","B"," ","Y","E">> >>,
    << <<"#","#","#","#","#","#","#">>,
       <<"#","S"," ","a"," ","A","#">>,
       <<"#","#","#","#","#","E","#">>,
       <<"#","#","#","#","#","#","#">> >>,
    << <<"#","#","#","#","#","#","#">>,
       <<"#","S"," ","A"," ","a","#">>,
       <<"#","#","#","#","#","E","#">>,
       <<"#","#","#","#","#","#","#">> >>,
    << <<"S"," ","s">>,
       <<"#","Y","#">>,
       <<" ","E"," ">> >>,
    << <<"S"," "," ">>,
       <<"#","Y","#">>,
       <<"s","E"," ">> >>,
    << <<"S","a"," ">>,
       <<" ","#","A">>,
       <<"A"," ","E">> >>,
    << <<"a","b","c","d">>,
       <<"S","e","f","#">>,
       <<"g","#","#","E">> >>,
    << <<"S","O","O","Q","Q","E">> >>,
    << <<"S","O","O","Q","E">> >>,
    << <<"S","Q","O">>,
       <<"O","Q","E">> >>,
    << <<"S"," "," ">>,
       <<" "," "," ">>,
       <<" "," ","E">> >>,
    << <<"S"," "," ">>,
       <<" "," "," ">>,
       <<"E"," "," ">> >>,
    << <<"S","b"," ","B"," ","O","Q","E">> >>,
    << <<"E","#","S","O","A","a"," "," ","Q">> >> }

\* the grid handed to the pathfinder: a corridor, a box or one of ExtraGrids
GridChoice(g) ==
  \/ \E n \in 2..MaxLen : \E se \in Placements(n) :
       \E fill \in [1..(n - 2) -> CorridorChars] :
         g = Corridor(n, se[1], se[2], fill)
  \/ \E se \in Placements(2 * BoxCols) :
       \E fill \in [1..(2 * BoxCols - 2) -> BoxChars] :
         g = Box(BoxCols, se[1], se[2], fill)
  \/ g \in ExtraGrids

Init ==
  /\ text = <<>>
  /\ report = NoReport
  /\ GridChoice(grid)
  /\ start = find_position(grid, "S")
  /\ end = find_position(grid, "E")
  /\ queue = InitialQueue(start)
  /\ visited = {InitialState(start)}
  /\ iter_count = 0
  /\ strategic_moves = InitialMoves
  /\ result = NoResult
  /\ pc = "loop"
  /\ first_run = NoReport
  /\ pool = <<>>

Next == Expand \/ ReachEnd \/ TimeOut \/ Exhaust

Spec == Init /\ [][Next]_vars

\* the pathfinder is sequential code that keeps running: a step that can be
\* taken is taken
SpecTerm == Init /\ [][Next]_vars /\ WF_vars(Next)

(***************************************************************************)
(* strategic_evaluator.py: grade_strategic_maze                            *)
(***************************************************************************)
SentinelScore == -100

\* StrategicMaze.bonus_exits: letter -> the last position found
bonus_exits(g) ==
  [ch \in {x \in {"F", "G", "H"} : PositionsOf(g, x) # <<>>} |->
     PositionsOf(g, ch)[Len(PositionsOf(g, ch))]]

\* lines 222-227: the report of a MazeParsingError
ParsingReport(kind) ==
  [error |-> kind, score |-> SentinelScore, error_type |-> "parsing"]

\* lines 41, 44, 50, 53, 60: the reports returned from inside the try
ErrorReport(kind) == [error |-> kind, score |-> SentinelScore]

\* structure_error that accepts several S or E and goes on with the first
structure_error_first(g) ==
  IF find_position(g, "S") = <<-1, -1>> THEN "no_start"
  ELSE IF find_position(g, "E") = <<-1, -1>> THEN "no_end"
  ELSE "ok"

\* lines 36-53: the check of S and E, "ok" when both stand exactly once
structure_error(g) ==
  IF find_position(g, "S") = <<-1, -1>> THEN "no_start"
  ELSE IF find_position(g, "E") = <<-1, -1>> THEN "no_end"
  ELSE IF count_elements(g, "S") # 1 THEN "many_starts"
  ELSE IF count_elements(g, "E") # 1 THEN "many_ends"
  ELSE "ok"

\* StrategicMaze.switches, movable_blocks: the positions found
switches(g) == PositionsOf(g, "s")
movable_blocks(g) == PositionsOf(g, "B")

\* StrategicMaze.conditional_doors: letter -> the last position found
conditional_doors(g) ==
  [ch \in {x \in {"X", "Y", "Z"} : PositionsOf(g, x) # <<>>} |->
     PositionsOf(g, ch)[Len(PositionsOf(g, ch))]]

\* set(solution["path"])
path_set(solution) == {solution.path[i] : i \in 1..Len(solution.path)}

\* scoring_analysis.count_adjacent_traps
count_adjacent_traps(g, valid_path) ==
  Cardinality({pd \in valid_path \X (1..Len(Dirs)) :
     LET ni == pd[1][1] + Dirs[pd[2]][1]
         nj == pd[1][2] + Dirs[pd[2]][2]
     IN /\ 0 <= ni /\ ni < Len(g)
        /\ 0 <= nj /\ nj < Len(g[ni + 1])
        /\ g[ni + 1][nj + 1] = "T"})

\* min(a, b)
min(a, b) == IF a <= b THEN a ELSE b

\* the bonus exits and the conditional doors whose position is on the path
exits_on_path(g, solution) ==
  {ch \in DOMAIN bonus_exits(g) : bonus_exits(g)[ch] \in path_set(solution)}
doors_on_path(g, solution) ==
  {ch \in DOMAIN conditional_doors(g) :
     conditional_doors(g)[ch] \in path_set(solution)}

\* scoring_analysis.analyze_strategic_innovation
analyze_strategic_innovation(g, solution) ==
  LET teleport_count == solution.strategic_usage.teleports
      switch_count == solution.strategic_usage.switches_activated
      exits == IF solution.solvable
               THEN Cardinality(exits_on_path(g, solution)) ELSE 0
      doors == IF solution.solvable
               THEN Cardinality(doors_on_path(g, solution)) ELSE 0
  IN [score |-> min(teleport_count * 15, 60) + min(switch_count * 20, 80)
                  + 25 * exits + 30 * doors,
      details |-> [teleporters_used |-> teleport_count,
                   switches_activated |-> switch_count,
                   bonus_exits_reached |-> exits,
                   conditional_doors_used |-> doors]]

\* lines 102-110 of scoring_analysis.py: the key and plain-door cells
keys_and_doors(g) ==
  Len(SelectSeq(ScanOrder(g),
                LAMBDA p : \/ IsLower(get_cell(g, p))
                           \/ IsPlainDoor(get_cell(g, p))))

\* lines 91-97 of scoring_analysis.py
strategic_elements_count(g) ==
  Len(teleporters_o(g)) + Len(switches(g)) + Len(movable_blocks(g))
    + Cardinality(DOMAIN bonus_exits(g))
    + Cardinality(DOMAIN conditional_doors(g))

\* scoring_analysis.analyze_route_complexity
analyze_route_complexity(g, solution) ==
  IF ~solution.solvable
  THEN [score |-> 0, details |-> [strategic_decisions |-> 0]]
  ELSE [score |-> min(strategic_elements_count(g) * 12, 150)
                    + min(keys_and_doors(g) * 8, 100),
        details |-> [strategic_decisions |->
                       strategic_elements_count(g) + keys_and_doors(g)]]

(***************************************************************************)
(* The floating-point numbers of the scorer are kept in fixed point, in    *)
(* units of 1/Unit of a point; round(x, 2) yields hundredths of a point.   *)
(* The fixed-point value is within 2/Unit of the floating-point one.       *)
(***************************************************************************)
Unit == 100000

\* math.log2(n) for n = 1..64, in units of 1e-7
log2_table ==
  << 0, 10000000, 15849625, 20000000, 23219281, 25849625, 28073549, 30000000,
     31699250, 33219281, 34594316, 35849625, 37004397, 38073549, 39068906, 40000000,
     40874628, 41699250, 42479275, 43219281, 43923174, 44594316, 45235620, 45849625,
     46438562, 47004397, 47548875, 48073549, 48579810, 49068906, 49541963, 50000000,
     50443941, 50874628, 51292830, 51699250, 52094534, 52479275, 52854022, 53219281,
     53575520, 53923174, 54262648, 54594316, 54918531, 55235620, 55545889, 55849625,
     56147098, 56438562, 56724253, 57004397, 57279205, 57548875, 57813597, 58073549,
     58328900, 58579810, 58826430, 59068906, 59307373, 59541963, 59772799, 60000000 >>

\* round(x, 2) of x given in fixed point: hundredths, ties to the even one
round2(x) ==
  LET q == x \div (Unit \div 100)
      r == x % (Unit \div 100)
      half == Unit \div 200
  IN IF r > half \/ (r = half /\ q % 2 = 1) THEN q + 1 ELSE q

\* line 66: grid_size = rows * cols
grid_size(g) == Rows(g) * Cols(g)

\* lines 70-75
strategic_bonus(g) ==
  Len(teleporters_o(g)) * 10 + Len(switches(g)) * 15
    + Cardinality(DOMAIN bonus_exits(g)) * 20
    + Cardinality(DOMAIN conditional_doors(g)) * 25

\* lines 69-76: 100 * log2(rows * cols) + strategic_bonus, in fixed point
ambition_score(g) ==
  (IF grid_size(g) > 0 THEN log2_table[Rows(g)] + log2_table[Cols(g)] ELSE 0)
    + strategic_bonus(g) * Unit

\* line 88
chain_score(solution) == solution.chain_length * 50

\* lines 92-94: (path_length / grid_size) * 100, in fixed point
path_eff_score(g, solution) ==
  IF grid_size(g) > 0 /\ solution.solvable
  THEN LET n == solution.path_length * 100
       IN (n \div grid_size(g)) * Unit + ((n % grid_size(g)) * Unit) \div grid_size(g)
  ELSE 0

\* completion_score that does not look at the outcome
completion_score_always(solution) == 50

\* line 98
completion_score(solution) == IF solution.solvable THEN 50 ELSE 0

\* lines 102-103
danger_score(g, solution) ==
  min(count_adjacent_traps(g, path_set(solution)) * 5, 30)

\* lines 106-114: the bonus objectives component
bonus_score(g, solution) ==
  IF solution.solvable
  THEN 75 * Cardinality({ch \in DOMAIN bonus_exits(g) :
                           \E i \in 1..Len(solution.path) :
                             solution.path[i] = bonus_exits(g)[ch]})
  ELSE 0

\* structure_penalty that is applied as soon as traps outnumber walls
structure_penalty_strict(g) ==
  IF count_elements(g, "T") > count_elements(g, "#") THEN -25 ELSE 0

\* lines 116-119: the penalty, in hundredths
structure_penalty(g) ==
  IF count_elements(g, "T") > count_elements(g, "#") * 2 THEN -25 ELSE 0

\* lines 122-124, in fixed point
base_score(g, solution) ==
  ambition_score(g) + path_eff_score(g, solution)
    + Unit * (analyze_strategic_innovation(g, solution).score
              + analyze_route_complexity(g, solution).score
              + chain_score(solution) + completion_score(solution)
              + danger_score(g, solution) + bonus_score(g, solution))

\* line 125: base_score * (1 + structure_penalty), in fixed point
total_score(g, solution) ==
  LET b == base_score(g, solution)
      f == 100 + structure_penalty(g)
  IN (b \div 100) * f + ((b % 100) * f) \div 100

\* lines 62-220: the report of a graded maze; score, base_score and the
\* scores of ambition and path_efficiency are in hundredths of a point,
\* structure_penalty in hundredths, the other scores in points
ScoreReport(g, solution) ==
  [score |-> round2(total_score(g, solution)),
   base_score |-> round2(base_score(g, solution)),
   structure_penalty |-> structure_penalty(g),
   components |->
     [ambition |-> round2(ambition_score(g)),
      strategic_innovation |-> analyze_strategic_innovation(g, solution).score,
      route_complexity |-> analyze_route_complexity(g, solution).score,
      complexity |-> chain_score(solution),
      path_efficiency |-> round2(path_eff_score(g, solution)),
      completion |-> completion_score(solution),
      danger |-> danger_score(g, solution),
      bonus_objectives |-> bonus_score(g, solution)],
   innovation_details |-> analyze_strategic_innovation(g, solution).details,
   maze_info |->
     [rows |-> Rows(g), cols |-> Cols(g),
      solvable |-> solution.solvable,
      keys_collected |-> solution.keys_collected,
      chain_length |-> solution.chain_length,
      path_length |-> solution.path_length,
      traps |-> count_elements(g, "T"),
      walls |-> count_elements(g, "#"),
      timeout |-> solution.timeout]]

\* lines 24-26 and 222-227: the parser raises MazeParsingError
GradeParseFails ==
  /\ pc = "grade"
  /\ ~parse_maze_from_text(text).ok
  /\ report' = ParsingReport(parse_maze_from_text(text).error)
  /\ pc' = "done"
  /\ UNCHANGED <<text, grid, start, end, queue, visited, iter_count,
                 strategic_moves, result>>
  /\ UNCHANGED others

\* lines 24-53: the grid parses but S or E is missing or duplicated
GradeRejects ==
  /\ pc = "grade"
  /\ parse_maze_from_text(text).ok
  /\ structure_error(parse_maze_from_text(text).grid) # "ok"
  /\ grid' = parse_maze_from_text(text).grid
  /\ report' = ErrorReport(structure_error(parse_maze_from_text(text).grid))
  /\ pc' = "done"
  /\ UNCHANGED <<text, start, end, queue, visited, iter_count,
                 strategic_moves, result>>
  /\ UNCHANGED others

\* lines 24-57 and pathfinding.py 27-64: the pathfinder is called
GradeSolves ==
  /\ pc = "grade"
  /\ parse_maze_from_text(text).ok
  /\ structure_error(parse_maze_from_text(text).grid) = "ok"
  /\ grid' = parse_maze_from_text(text).grid
  /\ start' = find_position(grid', "S")
  /\ end' = find_position(grid', "E")
  /\ queue' = InitialQueue(start')
  /\ visited' = {InitialState(start')}
  /\ iter_count' = 0
  /\ strategic_moves' = InitialMoves
  /\ pc' = "loop"
  /\ UNCHANGED <<text, report, result>>
  /\ UNCHANGED others

\* lines 59-60: the pathfinder returned a timeout
GradeTimesOut ==
  /\ pc = "returned"
  /\ result.timeout
  /\ report' = ErrorReport("timeout")
  /\ pc' = "done"
  /\ UNCHANGED <<text, grid, start, end, queue, visited, iter_count,
                 strategic_moves, result>>
  /\ UNCHANGED others

\* lines 62-220: the solution is scored
GradeScores ==
  /\ pc = "returned"
  /\ ~result.timeout
  /\ report' = ScoreReport(grid, result)
  /\ pc' = "done"
  /\ UNCHANGED <<text, grid, start, end, queue, visited, iter_count,
                 strategic_moves, result>>
  /\ UNCHANGED others

(***************************************************************************)
(* The texts handed to grade_strategic_maze                                *)
(***************************************************************************)
GradeGrids ==
  { << <<"#","#","#","#","#","#","#">>,
       <<"#","S"," ","a"," ","A","#">>,
       <<"#","#","#","#","#","E","#">>,
       <<"#","#","#","#","#","#","#">> >>,
    << <<"#","#","#","#","#","#","#">>,
       <<"#","S"," ","A"," ","a","#">>,
       <<"#","#","#","#","#","E","#">>,
       <<"#","#","#","#","#","#","#">> >>,
    << <<"S"," ","E">> >>,
    << <<"S","E">> >>,
    << <<"a"," ","E">> >>,
    << <<"S"," ","a">> >>,
    << <<"S"," ","S","E">> >>,
    << <<"S","E"," ","E">> >>,
    << <<"S","1","E">> >>,
    << <<"S","#","E">> >>,
    << <<"S","F","E">> >>,
    << <<"s","S","Y","E">> >>,
    << <<"S","O","#","Q","E">> >>,
    << <<"S","b","B"," ","A","E">> >>,
    << <<"S"," "," ","a">>, <<"#","A">>, <<" ","E"," ">> >>,
    << <<"T","I","M","E",":","S","E">>, <<"S"," ","E">> >>,
    << <<"s","S","E">> >>,
    << <<"S","s","#","E">> >>,
    << <<"O","S","E">>, <<"Q"," "," ">> >>,
    << <<"S","O","Q","E">> >>,
    << <<"S","T","E">>, <<"T","#","T">> >>,
    << <<"S","T","E">>, <<"T","#","a">> >>,
    << <<"S"," ","E">>, <<"T","T","T">>, <<"T","#","T">> >>,
    << <<"S","F","G">>, <<"#","#","E">> >>,
    << <<"S","F","#","E">> >>,
    << <<"S","a","b","E">> >> }

Prose == <<"H","e","r","e",":">>

\* a grid as the model writes it: bare, fenced, fenced as markdown with
\* prose around it, or between indented fences
Wraps == {"bare", "fenced", "markdown", "indented"}

Wrapped(wrap, g) ==
  IF wrap = "bare" THEN g
  ELSE IF wrap = "fenced" THEN <<Fence>> \o g \o <<Fence>>
  ELSE IF wrap = "markdown"
    THEN <<Prose, <<>>, FenceMarkdown>> \o g \o <<Fence, Prose>>
  ELSE << <<" ", " ">> \o Fence >> \o g \o << <<" ", " ">> \o Fence >>

\* n rows of width w: S and E lead the first row, fill is everywhere else
TallGrid(n, w, fill) ==
  [r \in 1..n |->
     [c \in 1..w |-> IF r = 1 /\ c = 1 THEN "S"
                     ELSE IF r = 1 /\ c = 2 THEN "E"
                     ELSE fill]]

ExtraTexts ==
  { <<>>,
    << <<" ", " ">> >>,
    << Fence, <<" ">>, Fence >>,
    << Fence, Fence, <<"S"," ","E">>, Fence >>,
    << <<"1","2","3">> >>,
    [r \in 1..(MAX_ROWS + 1) |-> [c \in 1..(MAX_COLS + 1) |-> "#"]],
    <<Fence>> \o [r \in 1..(MAX_ROWS + 1) |->
                    IF r = 1 THEN <<"S","1","E">> ELSE <<"#","#","#">>]
              \o <<Fence>> }

TextChoice(t) ==
  \/ \E g \in GradeGrids : \E wrap \in Wraps : t = Wrapped(wrap, g)
  \/ \E n \in {MAX_ROWS, MAX_ROWS + 1} : \E w \in {5, MAX_COLS, MAX_COLS + 1} :
       \E fill \in {"#", "T"} : \E wrap \in {"bare", "fenced"} :
         t = Wrapped(wrap, TallGrid(n, w, fill))
  \/ t \in ExtraTexts

InitGrade ==
  /\ TextChoice(text)
  /\ report = NoReport
  /\ grid = <<>>
  /\ start = <<-1, -1>>
  /\ end = <<-1, -1>>
  /\ queue = <<>>
  /\ visited = {}
  /\ iter_count = 0
  /\ strategic_moves = InitialMoves
  /\ result = NoResult
  /\ pc = "grade"
  /\ first_run = NoReport
  /\ pool = <<>>

NextGrade ==
  \/ GradeParseFails \/ GradeRejects \/ GradeSolves
  \/ Expand \/ ReachEnd \/ TimeOut \/ Exhaust
  \/ GradeTimesOut \/ GradeScores

SpecGrade == InitGrade /\ [][NextGrade]_vars

(***************************************************************************)
(* benchmark_runner.py: the same text graded again                         *)
(***************************************************************************)
\* run_benchmark_on_file on a file that was graded before: a later run of
\* grade_strategic_maze on the same text, in an interpreter process of its own
GradeAgain ==
  /\ pc = "done"
  /\ first_run = NoReport
  /\ first_run' = [grid |-> grid, result |-> result, report |-> report]
  /\ report' = NoReport
  /\ grid' = <<>>
  /\ start' = <<-1, -1>>
  /\ end' = <<-1, -1>>
  /\ queue' = <<>>
  /\ visited' = {}
  /\ iter_count' = 0
  /\ strategic_moves' = InitialMoves
  /\ result' = NoResult
  /\ pc' = "grade"
  /\ UNCHANGED <<text, pool>>

NextRegrade == NextGrade \/ GradeAgain

SpecRegrade == InitGrade /\ [][NextRegrade]_vars

(***************************************************************************)
(* batch_processor.py: run_all_models, parallel execution.  Every worker   *)
(* thread runs one grading call; a call is the record of the locals of     *)
(* grade_strategic_maze and solve_with_strategic_elements.                 *)
(***************************************************************************)
NumThreads == 2

Threads == 1..NumThreads

\* the outputs of the models under test
PoolTexts ==
  { << <<"S","a","b","E">> >>,
    << <<"S","O","#","Q","E">> >>,
    << <<"S","#","E">> >>,
    << <<"S","1","E">> >> }

\* the lowercase letters of the texts
PoolLetters ==
  {ch \in UNION {{t[i][k] : k \in 1..Len(t[i])} :
                   t \in PoolTexts, i \in 1..1} : IsLower(ch)}

\* a grading call that has not started
NewCall(t) ==
  [text |-> t, report |-> NoReport, grid |-> <<>>,
   start |-> <<-1, -1>>, end |-> <<-1, -1>>,
   queue |-> <<>>, visited |-> {}, iter_count |-> 0,
   strategic_moves |-> InitialMoves, result |-> NoResult, pc |-> "grade"]

\* list(S) in a process whose string hashes put the letters in this order
ListIn(order, S) == SelectSeq(order, LAMBDA x : x \in S)

\* strategic_evaluator.py 24-57: the step of a call up to the first test of
\* the loop condition
CallGrade(s) ==
  LET parsed == parse_maze_from_text(s.text)
  IN IF ~parsed.ok
     THEN [s EXCEPT !.report = ParsingReport(parsed.error), !.pc = "done"]
     ELSE IF structure_error(parsed.grid) # "ok"
     THEN [s EXCEPT !.grid = parsed.grid,
                    !.report = ErrorReport(structure_error(parsed.grid)),
                    !.pc = "done"]
     ELSE [s EXCEPT !.grid = parsed.grid,
                    !.start = find_position(parsed.grid, "S"),
                    !.end = find_position(parsed.grid, "E"),
                    !.queue = InitialQueue(find_position(parsed.grid, "S")),
                    !.visited = {InitialState(find_position(parsed.grid, "S"))},
                    !.iter_count = 0,
                    !.strategic_moves = InitialMoves,
                    !.pc = "loop"]

\* pathfinding.py 66-135: the steps of a call at the loop condition
CallLoop(s, order) ==
  IF s.queue # <<>> /\ s.iter_count < max_iter(s.grid)
  THEN LET st == Head(s.queue).state
           path == Head(s.queue).path
           r == st[1]
           c == st[2]
           moves == IF get_cell(s.grid, <<r, c>>) = "s"
                    THEN [s.strategic_moves EXCEPT !.switches_activated = @ + 1]
                    ELSE s.strategic_moves
           acc == _explore_possible_moves(
                    [queue |-> Tail(s.queue), visited |-> s.visited,
                     moves |-> moves],
                    s.grid, r, c, new_keys(s.grid, r, c, st[3]),
                    new_switches(s.grid, r, c, st[4]), st[5], path)
       IN {[s EXCEPT !.result = TimeoutResult(s.strategic_moves),
                     !.pc = "returned"]}
          \cup
          (IF <<r, c>> = s.end
           THEN {[s EXCEPT !.result = FinalResult(s.grid, TRUE, path, st[3],
                                        st[4], st[5], s.strategic_moves,
                                        ListIn(order, st[3])),
                           !.iter_count = @ + 1,
                           !.queue = Tail(@),
                           !.pc = "returned"]}
           ELSE {[s EXCEPT !.iter_count = @ + 1,
                           !.queue = acc.queue,
                           !.visited = acc.visited,
                           !.strategic_moves = acc.moves]})
  ELSE {[s EXCEPT !.result = FinalResult(s.grid, FALSE, <<>>, {}, {}, {},
                                         s.strategic_moves, <<>>),
                  !.pc = "returned"]}

\* strategic_evaluator.py 59-220: the step of a call after the pathfinder
CallReport(s) ==
  [s EXCEPT !.report = IF s.result.timeout THEN ErrorReport("timeout")
                       ELSE ScoreReport(s.grid, s.result),
            !.pc = "done"]

\* the states a call can be in after its next step
CallSteps(s, order) ==
  IF s.pc = "grade" THEN {CallGrade(s)}
  ELSE IF s.pc = "loop" THEN CallLoop(s, order)
  ELSE IF s.pc = "returned" THEN {CallReport(s)}
  ELSE {}

\* the visited set the pathfinders of all calls would work on if it were one
\* object shared by the threads
call_visited_shared(p, t) == UNION {p.calls[u].visited : u \in Threads}

\* the visited set the pathfinder of call t works on: a local of its own
\* solve_with_strategic_elements
call_visited(p, t) == p.calls[t].visited

InitPool ==
  /\ text = <<>>
  /\ report = NoReport
  /\ grid = <<>>
  /\ start = <<-1, -1>>
  /\ end = <<-1, -1>>
  /\ queue = <<>>
  /\ visited = {}
  /\ iter_count = 0
  /\ strategic_moves = InitialMoves
  /\ result = NoResult
  /\ pc = "pool"
  /\ first_run = NoReport
  /\ \E texts \in [Threads -> PoolTexts] : \E order \in ListsOf(PoolLetters) :
       pool = [calls |-> [t \in Threads |-> NewCall(texts[t])],
               str_order |-> order]

\* the thread of call t takes its next step
PoolStep(t) ==
  /\ pc = "pool"
  /\ \E s \in CallSteps([pool.calls[t] EXCEPT !.visited = call_visited(pool, t)],
                        pool.str_order) :
       pool' = [pool EXCEPT !.calls[t] = s]
  /\ UNCHANGED <<text, report, grid, start, end, queue, visited, iter_count,
                 strategic_moves, result, pc, first_run>>

NextPool == \E t \in Threads : PoolStep(t)

SpecPool == InitPool /\ [][NextPool]_vars

(***************************************************************************)
(* Properties of the pathfinder                                            *)
(***************************************************************************)
\* the pathfinder has returned its descriptor
Returned == pc \in {"returned", "done"} /\ result # NoResult

Solved == Returned /\ result.solvable

\* letters of the key cells on path before index i
KeysBefore(g, path, i) ==
  {ch \in {get_cell(g, path[j]) : j \in 1..(i - 1)} : IsLower(ch)}

\* switch cells on path before index i
SwitchesBefore(g, path, i) ==
  {p \in {path[j] : j \in 1..(i - 1)} : get_cell(g, p) = "s"}

\* the loop stopped on the iteration cap with states left in the frontier
CapHit == Returned /\ ~result.solvable /\ queue # <<>>
          /\ iter_count >= max_iter(grid)

\* C1: when the search stops on the iteration cap with a non-empty frontier
\* and the end cell not popped, the descriptor has solvable = false and
\* timeout = true.
C1_CapIsTimeout ==
  CapHit => (result.solvable = FALSE /\ result.timeout = TRUE)

\* C2: on every returned path of a solved maze each plain-door cell comes
\* after the cell of its lowercase key on that path.
C2_DoorAfterKey ==
  Solved =>
    \A i \in 1..Len(result.path) :
      LET ch == get_cell(grid, result.path[i])
      IN IsPlainDoor(ch) => Lower(ch) \in KeysBefore(grid, result.path, i)

\* C3: no returned path holds an X cell reached with fewer than 2 keys, a Y
\* cell reached with no activated switch, or a Z cell reached without a key
\* and an activated switch.
C3_ConditionalDoors ==
  Solved =>
    \A i \in 1..Len(result.path) :
      LET ch == get_cell(grid, result.path[i])
          ks == KeysBefore(grid, result.path, i)
          sw == SwitchesBefore(grid, result.path, i)
      IN /\ ch = "X" => Cardinality(ks) >= 2
         /\ ch = "Y" => sw # {}
         /\ ch = "Z" => (ks # {} /\ sw # {})

\* the cell of an in-grid position
CellAt(g, p) == g[p[1] + 1][p[2] + 1]

InGrid(g, p) ==
  /\ 0 <= p[1] /\ p[1] < Len(g)
  /\ 0 <= p[2] /\ p[2] < Len(g[p[1] + 1])

Adjacent(p) == {<<p[1] + Dirs[i][1], p[2] + Dirs[i][2]>> : i \in 1..Len(Dirs)}

\* every cell of g is one of chars
MadeOf(g, chars) == \A r \in 1..Len(g) : \A c \in 1..Len(g[r]) : g[r][c] \in chars

\* the search ended on neither bound
NoBoundHit == Returned /\ ~result.timeout /\ ~CapHit

\* keys other than the switch letter, doors other than the block letter
KeyLetters == {LowerSeq[i] : i \in 1..26} \ {"s"}
DoorLetters == {ch \in {UpperSeq[i] : i \in 1..26} : IsPlainDoor(ch)} \ {"B"}

\* a maze of walls, open cells, S, E, keys and plain doors only
KeyDoorMaze(g) == MadeOf(g, {"#", " ", "S", "E"} \cup KeyLetters \cup DoorLetters)

\* the pairs <<position, keys collected>> a traveller can be in who moves in
\* the four directions, never enters a wall and enters a door only with its
\* key collected, closed from the set seen
RECURSIVE LegalClosure(_, _)
LegalClosure(g, seen) ==
  LET step(s) ==
        {<<q, IF CellAt(g, q) \in KeyLetters THEN s[2] \cup {CellAt(g, q)} ELSE s[2]>> :
           q \in {n \in Adjacent(s[1]) :
                    /\ InGrid(g, n)
                    /\ CellAt(g, n) # "#"
                    /\ CellAt(g, n) \in DoorLetters => Lower(CellAt(g, n)) \in s[2]}}
      more == seen \cup UNION {step(s) : s \in seen}
  IN IF more = seen THEN seen ELSE LegalClosure(g, more)

LegallyReachable(g, from, to) ==
  \E s \in LegalClosure(g, {<<from, {}>>}) : s[1] = to

\* C4: in a maze of walls, open cells, S, E, keys and plain doors, with no
\* search bound hit, the pathfinder answers solvable exactly when E can be
\* reached from S by 4-directional moves that avoid walls and enter a door
\* only with its key collected; otherwise the descriptor is unsolved, not
\* timed out, with an empty path of length 0.
C4_KeyDoorReachability ==
  (NoBoundHit /\ KeyDoorMaze(grid)) =>
    /\ result.solvable = LegallyReachable(grid, start, end)
    /\ ~result.solvable =>
         (result.timeout = FALSE /\ result.path = <<>> /\ result.path_length = 0)

\* a door stands before its key and the maze is reported unsolved
C4_Witness ==
  /\ NoBoundHit /\ KeyDoorMaze(grid)
  /\ count_elements(grid, "A") > 0 /\ count_elements(grid, "a") > 0
  /\ ~result.solvable

\* C5: chain_length of a solved maze is the number of distinct plain-door
\* letters on the returned path whose key was held when the door cell was
\* reached.
C5_ChainLength ==
  Solved =>
    result.chain_length =
      Cardinality({ch \in {get_cell(grid, result.path[i]) : i \in 1..Len(result.path)} :
                     /\ IsPlainDoor(ch)
                     /\ \E i \in 1..Len(result.path) :
                          /\ get_cell(grid, result.path[i]) = ch
                          /\ Lower(ch) \in KeysBefore(grid, result.path, i)})

\* the positions reachable from the set seen by 4-directional moves that
\* avoid walls and the cells holding a character of closed
RECURSIVE OpenClosure(_, _, _)
OpenClosure(g, closed, seen) ==
  LET more == seen \cup
        {n \in UNION {Adjacent(p) : p \in seen} :
           InGrid(g, n) /\ CellAt(g, n) \notin (closed \cup {"#"})}
  IN IF more = seen THEN seen ELSE OpenClosure(g, closed, more)

\* one switch, one Y door, and no route from S to E that avoids the Y door
SwitchDoorMaze(g) ==
  /\ MadeOf(g, {"#", " ", "S", "E", "s", "Y"})
  /\ count_elements(g, "s") = 1
  /\ count_elements(g, "Y") = 1
  /\ find_position(g, "E") \notin OpenClosure(g, {"Y"}, {find_position(g, "S")})

\* the switch can be stepped on before the door is needed
SwitchBeforeDoor(g) ==
  find_position(g, "s") \in OpenClosure(g, {"Y"}, {find_position(g, "S")})

\* C6: with one switch and one Y door gating the only route to E the maze
\* is reported solved exactly when the switch can be reached before the
\* door (and E lies behind the door), and then the switch position is in
\* switches_activated.
C6_SwitchGate ==
  (Returned /\ ~result.timeout /\ SwitchDoorMaze(grid)) =>
    /\ result.solvable =
         (/\ SwitchBeforeDoor(grid)
          /\ end \in OpenClosure(grid, {}, {start}))
    /\ result.solvable => find_position(grid, "s") \in result.switches_activated

\* a gated maze solved through its switch
C6_Witness ==
  /\ Returned /\ SwitchDoorMaze(grid) /\ result.solvable
  /\ find_position(grid, "s") \in result.switches_activated

\* an origin cell with a paired destination the traveller can stand on
LiveOrigin(g, p) ==
  /\ get_cell(g, p) = "O"
  /\ teleport_destinations(g, p) # <<>>
  /\ is_traversable(g, teleport_destinations(g, p)[1])

\* C10: stepping onto an unused teleporter origin with a paired destination
\* puts the traveller on the destination and consumes the origin: no path
\* goes on from such an origin with the origin still unused.
C10_TeleportRedirects ==
  \A k \in 1..Len(queue) :
    LET path == queue[k].path
    IN \A i \in 1..(Len(path) - 1) :
         LiveOrigin(grid, path[i]) => path[i] \in queue[k].state[5]

\* the state popped next stands on an unused origin with a live destination
AtUnusedOrigin ==
  /\ pc = "loop" /\ LoopRuns
  /\ <<Head(queue).state[1], Head(queue).state[2]>> # end
  /\ LiveOrigin(grid, <<Head(queue).state[1], Head(queue).state[2]>>)
  /\ <<Head(queue).state[1], Head(queue).state[2]>> \notin Head(queue).state[5]

\* the state the teleport from the popped origin leads to
TeleportSuccessor ==
  LET st == Head(queue).state
      o == <<st[1], st[2]>>
      q == teleport_destinations(grid, o)[1]
  IN State(q[1], q[2], new_keys(grid, o[1], o[2], st[3]),
           new_switches(grid, o[1], o[2], st[4]), st[5] \cup {o})

\* every consumed origin of a frontier path is followed on it by its destination
ConsumedMeansJumped ==
  \A k \in 1..Len(queue) :
    \A o \in queue[k].state[5] :
      \E i \in 1..(Len(queue[k].path) - 1) :
        /\ queue[k].path[i] = o
        /\ queue[k].path[i + 1] = teleport_destinations(grid, o)[1]

\* C10 (amended): expanding a state on an unused origin with a paired,
\* traversable destination generates the successor on the destination with
\* the origin consumed, next to the ordinary walking successors; an origin is
\* consumed on a path only by jumping from it to its destination.
C10_TeleportOffered ==
  /\ []ConsumedMeansJumped
  /\ [][(AtUnusedOrigin /\ iter_count' # iter_count) => TeleportSuccessor \in visited']_vars

\* a frontier path that has jumped from an origin
C10_Witness ==
  \E k \in 1..Len(queue) : queue[k].state[5] # {}

(***************************************************************************)
(* Movable blocks, teleporter pairing, open grids                          *)
(***************************************************************************)
\* the next step of the loop expands the state at the head of the frontier
Expanding ==
  /\ pc = "loop" /\ LoopRuns
  /\ <<Head(queue).state[1], Head(queue).state[2]>> # end

\* C11: a movable-block cell B is entered like an open cell, with no key,
\* whatever the keys and switches held, and a move from a cell leads to a
\* neighbouring cell only (or, from an origin, to its teleport destination):
\* a block cell never carries the traveller further.
C11_BlockTraversable ==
  [][(Expanding /\ iter_count' # iter_count) =>
       LET st == Head(queue).state
           here == <<st[1], st[2]>>
           keys == new_keys(grid, st[1], st[2], st[3])
           sw == new_switches(grid, st[1], st[2], st[4])
       IN /\ \A n \in Adjacent(here) :
               (InGrid(grid, n) /\ CellAt(grid, n) = "B") =>
                 State(n[1], n[2], keys, sw, st[5]) \in visited'
          /\ \A s \in visited' \ visited :
               \/ <<s[1], s[2]>> \in Adjacent(here)
               \/ /\ CellAt(grid, here) = "O"
                  /\ teleport_destinations(grid, here) = << <<s[1], s[2]>> >>
     ]_vars

\* p comes before q in the row-major scan
Before(p, q) == p[1] < q[1] \/ (p[1] = q[1] /\ p[2] < q[2])

\* the cells of g that hold ch
CellsOf(g, ch) ==
  {p \in UNION {{<<r - 1, c - 1>> : c \in 1..Len(g[r])} : r \in 1..Len(g)} :
     CellAt(g, p) = ch}

\* the number of p among the ch cells, counted from 1 in row-major order
Rank(g, ch, p) == Cardinality({q \in CellsOf(g, ch) : Before(q, p)}) + 1

\* the destination with the number of the origin p, if both exist
PairedDestination(g, p) ==
  IF p \in CellsOf(g, "O")
       /\ \E q \in CellsOf(g, "Q") : Rank(g, "Q", q) = Rank(g, "O", p)
  THEN << CHOOSE q \in CellsOf(g, "Q") : Rank(g, "Q", q) = Rank(g, "O", p) >>
  ELSE <<>>

\* C12: teleport_destinations(p) is exactly the i-th destination of the
\* row-major scan when p is the i-th origin and there is an i-th destination,
\* and is empty when p is no origin or there is no i-th destination.
C12_PositionalPairing ==
  \A r \in -1..Rows(grid) : \A c \in -1..Cols(grid) :
    teleport_destinations(grid, <<r, c>>) = PairedDestination(grid, <<r, c>>)

\* a frontier path has jumped from the second origin to the second destination
C12_Witness ==
  \E k \in 1..Len(queue) : \E o \in queue[k].state[5] :
    /\ Rank(grid, "O", o) = 2
    /\ \E i \in 1..(Len(queue[k].path) - 1) :
         /\ queue[k].path[i] = o
         /\ <<queue[k].path[i + 1]>> = PairedDestination(grid, o)

\* one S, one E and open cells only
OpenGrid(g) ==
  /\ MadeOf(g, {"S", "E", " "})
  /\ count_elements(g, "S") = 1 /\ count_elements(g, "E") = 1

Abs(x) == IF x < 0 THEN -x ELSE x

Manhattan(p, q) == Abs(p[1] - q[1]) + Abs(p[2] - q[2])

\* C13: on a grid of one S, one E and open cells only the pathfinder returns
\* solvable = true, path_length equal to the Manhattan distance between S
\* and E, and chain_length = 0.
C13_ManhattanLength ==
  (Returned /\ ~result.timeout /\ OpenGrid(grid)) =>
    /\ result.solvable
    /\ result.path_length = Manhattan(start, end)
    /\ result.chain_length = 0

\* C13 (amended): on such a grid, when the wall clock does not fire, the
\* pathfinder returns solvable = true, chain_length = 0 and a path_length
\* that counts the cells of the returned path, the S cell included: the
\* Manhattan distance between S and E plus 1.
C13_ShortestCells ==
  (Returned /\ ~result.timeout /\ OpenGrid(grid)) =>
    /\ result.solvable
    /\ result.path_length = Len(result.path)
    /\ result.path_length = Manhattan(start, end) + 1
    /\ result.chain_length = 0

\* an open grid solved between cells that are not neighbours
C13_Witness ==
  /\ Returned /\ OpenGrid(grid) /\ result.solvable
  /\ Rows(grid) > 1 /\ Manhattan(start, end) >= 2


(***************************************************************************)
(* Properties of grade_strategic_maze                                      *)
(***************************************************************************)
PathfinderInvoked == visited # {} \/ result # NoResult

IsErrorReport == pc = "done" /\ "error" \in DOMAIN report

\* the parsed grid has a missing or duplicated S or E
BadEndpoints ==
  /\ parse_maze_from_text(text).ok
  /\ \/ count_elements(parse_maze_from_text(text).grid, "S") # 1
     \/ count_elements(parse_maze_from_text(text).grid, "E") # 1

\* C7: for a parsed grid whose number of S cells or of E cells is not
\* exactly 1, grading returns an error report with the score -100 and the
\* pathfinder is never invoked (no first S or E is taken as a default).
C7_EndpointsChecked ==
  BadEndpoints =>
    /\ ~PathfinderInvoked
    /\ pc = "done" => (IsErrorReport /\ report.score = -100)

\* a grid with two S cells has been graded
C7_Witness ==
  /\ pc = "done"
  /\ parse_maze_from_text(text).ok
  /\ count_elements(parse_maze_from_text(text).grid, "S") = 2
  /\ IsErrorReport

\* the rows of the maze as written: the non-blank lines of the fenced block,
\* or of the whole text without one
InputRows(lines) ==
  IF code_block_match(lines) # <<>> THEN StrippedRows(code_block_match(lines)[1])
  ELSE StrippedRows(lines)

Oversized(lines) ==
  Len(InputRows(lines)) > MAX_ROWS \/ MaxWidth(InputRows(lines)) > MAX_COLS

\* C8: a maze with more than MAX_ROWS rows or a row wider than MAX_COLS is
\* rejected with the too-many-rows or too-many-columns parsing error, graded
\* as an error of kind parsing with score -100, and the pathfinder is not
\* invoked, fenced or not and whatever its rows start with.
C8_OversizedRejected ==
  Oversized(text) =>
    /\ ~PathfinderInvoked
    /\ pc = "done" =>
         /\ IsErrorReport
         /\ report.error \in {"too_tall", "too_wide"}
         /\ report.score = -100
         /\ "error_type" \in DOMAIN report /\ report.error_type = "parsing"

\* C9: every error report carries the score -100, an error message and an
\* error-kind tag.
C9_ErrorReportComplete ==
  IsErrorReport =>
    /\ report.score = -100
    /\ "error_type" \in DOMAIN report

(***************************************************************************)
(* Properties of the parser                                                *)
(***************************************************************************)
\* the rows of the maze as they stand in the text, blanks included: the
\* non-blank lines of the fenced block, or the lines strategy 2 keeps
WrittenRows(lines) ==
  IF code_block_match(lines) # <<>>
  THEN SelectSeq(code_block_match(lines)[1], LAMBDA l : Strip(l) # <<>>)
  ELSE SelectSeq(lines, LAMBDA l : KeptLine(Strip(l)))

Parsed == pc # "grade" /\ parse_maze_from_text(text).ok

\* g holds the rows, each padded on the right with spaces to the width of
\* the longest of them
PaddedFrom(g, rows) ==
  /\ Len(g) = Len(rows)
  /\ \A i \in 1..Len(g) :
       /\ Len(g[i]) = MaxWidth(rows)
       /\ SubSeq(g[i], 1, Len(rows[i])) = rows[i]
       /\ \A k \in (Len(rows[i]) + 1)..Len(g[i]) : g[i][k] = " "

\* C15: every accepted input is parsed into rows of one width, the width of
\* the longest input row, each row being its input row followed by space
\* padding on the right only, so that cells keep their original column.
C15_RaggedPadded == Parsed => PaddedFrom(grid, WrittenRows(text))

\* C15 (amended): every accepted input is parsed into rows of one width, the
\* width of the longest input row after trimming; each row is its input row
\* trimmed of leading and trailing blanks, followed by space padding on the
\* right only: cells keep their column counted from the first non-blank
\* character of their row.
C15_TrimmedPadded ==
  Parsed => PaddedFrom(grid, [i \in 1..Len(WrittenRows(text)) |->
                                Strip(WrittenRows(text)[i])])

\* a ragged grid with a row that starts with a blank has been parsed
C15_Witness ==
  /\ Parsed /\ pc = "done"
  /\ \E i \in 1..Len(WrittenRows(text)) :
       /\ Head(WrittenRows(text)[i]) = " "
       /\ Len(Strip(WrittenRows(text)[i])) < Cols(grid)

\* the rows the parser extracts from the text
ExtractedRows(lines) ==
  [i \in 1..Len(WrittenRows(lines)) |-> Strip(WrittenRows(lines)[i])]

\* a character outside the maze alphabet stands in the rows
HasInvalid(rows) ==
  \E i \in 1..Len(rows) : \E k \in 1..Len(rows[i]) :
    rows[i][k] \notin (VALID_MAZE_CHARS \cup {" "})

WithinLimits(rows) ==
  /\ Len(rows) <= MAX_ROWS
  /\ MaxWidth(rows) <= MAX_COLS
  /\ Len(rows) * MaxWidth(rows) <= MAX_CELLS

ParseFailed == pc = "done" /\ IsErrorReport /\ grid = <<>> /\ ~PathfinderInvoked

\* C16: a grid is accepted only if each of its characters is in the maze
\* alphabet or a space; a text whose extracted rows hold any other character
\* fails with the parsing error for invalid characters and yields no grid.
C16_InvalidRejected ==
  /\ Parsed => ~HasInvalid(grid)
  /\ (pc = "done" /\ HasInvalid(ExtractedRows(text))) =>
       (ParseFailed /\ report.error = "invalid_chars")

\* C16 (amended): a grid is accepted only if each of its characters is in
\* the maze alphabet or a space; a text whose extracted rows hold any other
\* character fails with a parsing error and yields no grid, the character is
\* never replaced; the error is the one for invalid characters when the rows
\* pass the size checks, which come first, and a size error otherwise.
C16_InvalidNeverAccepted ==
  /\ Parsed => ~HasInvalid(grid)
  /\ (pc = "done" /\ HasInvalid(ExtractedRows(text))) =>
       /\ ParseFailed
       /\ "error_type" \in DOMAIN report /\ report.error_type = "parsing"
       /\ WithinLimits(ExtractedRows(text)) => report.error = "invalid_chars"
       /\ ~WithinLimits(ExtractedRows(text)) =>
            report.error \in {"too_tall", "too_wide", "too_large"}

\* a text with a digit among its rows has been rejected for it
C16_Witness ==
  /\ pc = "done" /\ HasInvalid(ExtractedRows(text))
  /\ IsErrorReport /\ report.error = "invalid_chars"

(***************************************************************************)
(* Properties of the score report                                          *)
(***************************************************************************)
Scored == pc = "done" /\ ~IsErrorReport

\* C14: the teleport count of the Innovation component is the number of
\* teleporter jumps on the returned path and its switch count the number of
\* switches activated on the returned path; states explored off the path
\* add nothing and an unsolved maze has neither credit.
C14_InnovationOnPath ==
  Scored =>
    /\ report.innovation_details.teleporters_used =
         (IF result.solvable THEN Cardinality(result.teleporters_used) ELSE 0)
    /\ report.innovation_details.switches_activated =
         (IF result.solvable THEN Cardinality(result.switches_activated) ELSE 0)

\* C17: in every scored report structure_penalty is -0.25 exactly when the
\* traps number more than twice the walls and 0 otherwise; the total score
\* is the base score times (1 + structure_penalty), here on the two rounded
\* numbers of the report, which can differ by less than a hundredth; and a
\* positive base score is never brought down to zero.
C17_StructurePenalty ==
  Scored =>
    LET traps == Cardinality(CellsOf(grid, "T"))
        walls == Cardinality(CellsOf(grid, "#"))
        pen == report.structure_penalty
    IN /\ pen = (IF traps > 2 * walls THEN -25 ELSE 0)
       /\ Abs(100 * report.score - report.base_score * (100 + pen)) <= 100
       /\ pen = 0 => report.score = report.base_score
       /\ report.base_score > 0 => report.score > 0

\* a maze with more than twice as many traps as walls has been scored
C17_Witness ==
  /\ Scored /\ report.structure_penalty = -25
  /\ Cardinality(CellsOf(grid, "#")) > 0
  /\ 0 < report.score /\ report.score < report.base_score

\* C18: a maze graded as unsolved has completion, path efficiency,
\* traditional complexity and bonus objectives all 0; a solved maze has
\* completion 50 and traditional complexity 50 times chain_length.
C18_UnsolvedZero ==
  Scored =>
    /\ ~result.solvable =>
         /\ report.components.completion = 0
         /\ report.components.path_efficiency = 0
         /\ report.components.complexity = 0
         /\ report.components.bonus_objectives = 0
    /\ result.solvable =>
         /\ report.components.completion = 50
         /\ report.components.complexity = 50 * result.chain_length

\* an unsolved maze with a bonus exit next to S has been scored
C18_Witness ==
  /\ Scored /\ ~result.solvable
  /\ CellsOf(grid, "F") # {}

(***************************************************************************)
(* Determinism and independence of grading calls                           *)
(***************************************************************************)
TimedOut(res) == res # NoResult /\ res.timeout

\* C19: the same text, graded twice without the wall clock firing, gives
\* the same grid, the same solution descriptor and the same report.
C19_Deterministic ==
  (pc = "done" /\ first_run # NoReport
     /\ ~TimedOut(result) /\ ~TimedOut(first_run.result)) =>
    /\ grid = first_run.grid
    /\ result = first_run.result
    /\ report = first_run.report

\* a call run to its end on its own, the wall clock never firing
RECURSIVE RunAlone(_, _)
RunAlone(s, order) ==
  IF s.pc = "done" THEN s
  ELSE RunAlone(CHOOSE n \in CallSteps(s, order) : ~TimedOut(n.result), order)

\* C20: under every interleaving of the calls of the pool, a call that has
\* returned holds the grid, descriptor and report its text gets when it is
\* graded alone (the timeout report when its wall clock fired).
C20_CallsIndependent ==
  pc = "pool" =>
    \A t \in Threads :
      LET s == pool.calls[t]
      IN s.pc = "done" =>
           IF TimedOut(s.result) THEN s.report = ErrorReport("timeout")
           ELSE s = RunAlone(NewCall(s.text), pool.str_order)

\* a call has been scored while another call on the same text is in the
\* middle of its search
C20_Witness ==
  /\ pc = "pool"
  /\ \E t \in Threads : \E u \in Threads \ {t} :
       /\ pool.calls[t].text = pool.calls[u].text
       /\ pool.calls[t].pc = "done" /\ pool.calls[t].result # NoResult
       /\ pool.calls[t].result.solvable
       /\ pool.calls[u].pc = "loop" /\ pool.calls[u].iter_count >= 1

(***************************************************************************)
(* Properties of the search: visited set, order, cumulative sets           *)
(***************************************************************************)
\* a step that expands the state at the head of the frontier
ExpandStep == Expanding /\ iter_count' # iter_count

\* the entries the step appends to the frontier
Generated == SubSeq(queue', Len(queue), Len(queue'))

\* the states of the frontier
FrontierStates == {queue[k].state : k \in 1..Len(queue)}

\* C21: every search state is enqueued at most once, hence expanded at most
\* once, and every frontier state is in the visited set, whether a walk, a
\* teleport or a block push generated it: the frontier holds no state twice,
\* the visited states number the states popped plus the states waiting, and
\* an expansion appends only states that were not visited and marks them.
C21_VisitedDiscipline ==
  /\ [](pc \in {"loop", "returned"} =>
          /\ FrontierStates \subseteq visited
          /\ Cardinality(FrontierStates) = Len(queue)
          /\ Cardinality(visited) = iter_count + Len(queue))
  /\ [][ExpandStep =>
          /\ visited \subseteq visited'
          /\ \A k \in 1..Len(Generated) :
               /\ Generated[k].state \notin visited
               /\ Generated[k].state \in visited'
          /\ visited' = visited \cup {Generated[k].state : k \in 1..Len(Generated)}
       ]_vars

\* a search that has walked, teleported and pushed a block, with states
\* popped and states waiting
C21_Witness ==
  /\ pc = "loop" /\ queue # <<>>
  /\ strategic_moves.teleports >= 1 /\ strategic_moves.blocks_moved >= 2
  /\ Cardinality(visited) > Len(queue) + 1

\* the transitions of the search graph out of state s: a walk to a
\* neighbouring cell, a jump from an unused origin, a push from a block cell
Successors(g, s) ==
  LET here == <<s[1], s[2]>>
      keys == new_keys(g, s[1], s[2], s[3])
      sw == new_switches(g, s[1], s[2], s[4])
      walks == {State(n[1], n[2], keys, sw, s[5]) :
                  n \in {m \in Adjacent(here) : _is_valid_move(g, m, keys, sw)}}
      dests == teleport_destinations(g, here)
      jumps == IF get_cell(g, here) = "O" /\ here \notin s[5]
               THEN {State(dests[i][1], dests[i][2], keys, sw, s[5] \cup {here}) :
                       i \in {j \in 1..Len(dests) : is_traversable(g, dests[j])}}
               ELSE {}
      lands == {<<here[1] + 2 * Dirs[i][1], here[2] + 2 * Dirs[i][2]>> :
                  i \in {j \in 1..Len(Dirs) :
                           get_cell(g, <<here[1] + Dirs[j][1], here[2] + Dirs[j][2]>>) = " "}}
      pushes == IF get_cell(g, here) = "B"
                THEN {State(l[1], l[2], keys, sw, s[5]) :
                        l \in {m \in lands : is_traversable(g, m)}}
                ELSE {}
  IN walks \cup jumps \cup pushes

\* the least number of transitions that lead from a state of the set
\* frontier, n transitions away from the start, to target; -1 if none does
RECURSIVE Distance(_, _, _, _, _)
Distance(g, seen, frontier, target, n) ==
  IF target \in frontier THEN n
  ELSE IF frontier = {} THEN -1
  ELSE LET next == UNION {Successors(g, s) : s \in frontier} \ seen
       IN Distance(g, seen \cup next, next, target, n + 1)

MinTransitions(g, from, target) ==
  Distance(g, {InitialState(from)}, {InitialState(from)}, target, 0)

\* the indices of path where a block push starts: a block cell followed by
\* the open cell next to it and the cell behind that one
PushesOn(g, path) ==
  {i \in 1..(Len(path) - 2) :
     /\ get_cell(g, path[i]) = "B"
     /\ get_cell(g, path[i + 1]) = " "
     /\ \E d \in 1..Len(Dirs) :
          /\ path[i + 1] = <<path[i][1] + Dirs[d][1], path[i][2] + Dirs[d][2]>>
          /\ path[i + 2] = <<path[i][1] + 2 * Dirs[d][1], path[i][2] + 2 * Dirs[d][2]>>}

\* the number of transitions that produced path: a push adds two cells,
\* a walk or a jump one
Transitions(g, path) == Len(path) - 1 - Cardinality(PushesOn(g, path))

\* the state the returned descriptor was popped in
ReturnedState ==
  State(end[1], end[2],
        {result.keys_collected[i] : i \in 1..Len(result.keys_collected)},
        result.switches_activated, result.teleporters_used)

\* the entries of the frontier that the step has put there
Fresh == SelectSeq(queue', LAMBDA e : e.state \notin visited)

\* C22: every expansion appends paths of one transition more than the
\* path it pops, and the path of a solved maze has the least number of
\* transitions (walk, jump or push, each counting one) of all transition
\* sequences that lead from the start to the end cell with the keys,
\* switches and used teleporters of the descriptor.
C22_BreadthFirstMinimal ==
  /\ [](Solved =>
          Transitions(grid, result.path) = MinTransitions(grid, start, ReturnedState))
  /\ [][ExpandStep =>
          \A k \in 1..Len(Fresh) :
            Transitions(grid, Fresh[k].path)
              = Transitions(grid, Head(queue).path) + 1]_vars

\* a maze solved over a block push, on a path of four transitions or more
C22_Witness ==
  /\ Solved
  /\ PushesOn(grid, result.path) # {}
  /\ Transitions(grid, result.path) >= 4

\* C23: keys held and switches activated are cumulative: every state an
\* expansion generates holds the keys and the switches of the state it was
\* generated from, and possibly more; no transition removes a key or
\* deactivates a switch.
C23_Cumulative ==
  [][ExpandStep =>
       \A k \in 1..Len(Generated) :
         /\ Head(queue).state[3] \subseteq Generated[k].state[3]
         /\ Head(queue).state[4] \subseteq Generated[k].state[4]]_vars

\* a frontier state that holds a key and an activated switch, picked up
\* on different cells of its path
C23_Witness ==
  /\ pc = "loop"
  /\ \E k \in 1..Len(queue) :
       /\ queue[k].state[3] \ {"s"} # {}
       /\ queue[k].state[4] # {}
       /\ Len(queue[k].path) >= 4

(***************************************************************************)
(* Teleporter consumption, termination, frame of the search                *)
(***************************************************************************)
\* the indices of path where it jumps from origin o: o followed by its
\* paired destination, which is no neighbour of o
JumpsFrom(g, path, o) ==
  {i \in 1..(Len(path) - 1) :
     /\ path[i] = o
     /\ <<path[i + 1]>> = teleport_destinations(g, o)
     /\ path[i + 1] \notin Adjacent(o)}

\* C24: each teleporter origin is teleported from at most once on a path:
\* no frontier path jumps twice from one origin, the consumed set of a path
\* holds origins of that path only, an expansion jumps only from an origin
\* that the popped path has not consumed, and it marks that origin consumed.
C24_TeleportOnce ==
  /\ [](\A k \in 1..Len(queue) :
          /\ \A o \in CellsOf(grid, "O") :
               Cardinality(JumpsFrom(grid, queue[k].path, o)) <= 1
          /\ \A o \in queue[k].state[5] :
               /\ get_cell(grid, o) = "O"
               /\ \E i \in 1..(Len(queue[k].path) - 1) : queue[k].path[i] = o)
  /\ [][ExpandStep =>
          LET st == Head(queue).state
              here == <<st[1], st[2]>>
          IN \A k \in 1..Len(Generated) :
               LET new == Generated[k].state
                   walked == \/ <<new[1], new[2]>> \in Adjacent(here)
                             \/ get_cell(grid, here) = "B"
               IN \/ new[5] = st[5] /\ walked
                  \/ /\ here \notin st[5]
                     /\ new[5] = st[5] \cup {here}
                     /\ << <<new[1], new[2]>> >> = teleport_destinations(grid, here)
       ]_vars

\* a path that has jumped from an origin and come back to it, on other
\* cells than its destination, has been expanded there with a new key
C24_Witness ==
  /\ pc = "loop"
  /\ \E s \in visited \ FrontierStates :
       /\ <<s[1], s[2]>> \in s[5]
       /\ s[3] # {}
       /\ teleport_destinations(grid, <<s[1], s[2]>>)[1] \notin Adjacent(<<s[1], s[2]>>)

\* the three kinds of descriptor
IsDescriptor(res) ==
  /\ res # NoResult
  /\ \/ res.solvable /\ ~res.timeout /\ res.path # <<>>
     \/ ~res.solvable /\ ~res.timeout /\ res.path = <<>>
     \/ ~res.solvable /\ res.timeout /\ res.path = <<>>

\* C25: on every grid the pathfinder eventually returns a descriptor,
\* solved, unsolved or timed out, and it never expands more than
\* 20 x rows x cols states; until it returns a step is always possible.
C25_Terminates ==
  /\ <>(pc = "returned")
  /\ [](pc = "returned" => IsDescriptor(result))
  /\ [](iter_count <= 20 * Rows(grid) * Cols(grid))
  /\ [](pc = "loop" => ENABLED Next)

\* the pathfinder has returned on the iteration cap with states waiting
C25_Witness ==
  /\ pc = "returned" /\ IsDescriptor(result)
  /\ iter_count = 20 * Rows(grid) * Cols(grid)
  /\ queue # <<>>

\* the maps StrategicMaze builds from its grid
MazeMaps(g) ==
  [teleporters_o |-> teleporters_o(g), teleporters_q |-> teleporters_q(g),
   switches |-> switches(g), movable_blocks |-> movable_blocks(g),
   bonus_exits |-> bonus_exits(g), conditional_doors |-> conditional_doors(g)]

\* C26: the search is read-only on its inputs: no step of the pathfinder,
\* the block push included, changes the grid, a map of the maze model, the
\* start or the end; they are after the call what they were before it.
C26_SearchReadOnly ==
  [][pc = "loop" =>
       /\ grid' = grid
       /\ MazeMaps(grid') = MazeMaps(grid)
       /\ start' = start /\ end' = end]_vars

\* the pathfinder has returned from a search that pushed a block
C26_Witness ==
  /\ pc = "returned" /\ result # NoResult
  /\ result.strategic_usage.blocks_moved >= 1
  /\ movable_blocks(grid) # <<>>

(***************************************************************************)
(* Switches and keys, shape of the returned path                           *)
(***************************************************************************)
\* C27: stepping on a switch cell changes the activated switches only: the
\* states generated from a switch cell hold the keys of the popped state and
\* no more, no state ever holds 's' as a key, 's' is never in
\* keys_collected, and so a switch never counts toward the keys an X or a Z
\* door asks for.
C27_SwitchNotKey ==
  /\ [](\A k \in 1..Len(queue) : "s" \notin queue[k].state[3])
  /\ []((Returned /\ ~result.timeout) =>
          \A i \in 1..Len(result.keys_collected) : result.keys_collected[i] # "s")
  /\ [][(ExpandStep /\ get_cell(grid, <<Head(queue).state[1], Head(queue).state[2]>>) = "s") =>
          \A k \in 1..Len(Generated) :
            /\ Generated[k].state[3] = Head(queue).state[3]
            /\ Generated[k].state[4] =
                 Head(queue).state[4] \cup {<<Head(queue).state[1], Head(queue).state[2]>>}
       ]_vars
\* path starts at from, stays on cells of the grid that are no walls, and
\* moves between neighbouring cells or from an origin to its destination
WellFormed(g, path, from) ==
  /\ path # <<>>
  /\ path[1] = from
  /\ \A i \in 1..Len(path) : InGrid(g, path[i]) /\ CellAt(g, path[i]) # "#"
  /\ \A i \in 1..(Len(path) - 1) :
       \/ path[i + 1] \in Adjacent(path[i])
       \/ /\ CellAt(g, path[i]) = "O"
          /\ <<path[i + 1]>> = PairedDestination(g, path[i])

\* C28: every returned path of a solved maze starts at the S cell and ends
\* at the E cell, holds only positions inside the grid that are no walls,
\* and every two consecutive positions are 4-directionally adjacent or a
\* teleporter origin followed by its paired destination; the same holds of
\* every path of the frontier up to the cell of its state.
C28_PathWellFormed ==
  /\ Solved =>
       /\ WellFormed(grid, result.path, start)
       /\ result.path[Len(result.path)] = end
       /\ CellAt(grid, result.path[1]) = "S"
       /\ CellAt(grid, result.path[Len(result.path)]) = "E"
  /\ \A k \in 1..Len(queue) :
       /\ WellFormed(grid, queue[k].path, start)
       /\ queue[k].path[Len(queue[k].path)] = <<queue[k].state[1], queue[k].state[2]>>

\* a solved maze whose path jumps from an origin to a destination that is
\* no neighbour of it
C28_Witness ==
  /\ Solved
  /\ \E i \in 1..(Len(result.path) - 1) :
       result.path[i + 1] \notin Adjacent(result.path[i])
\* the cells of the returned path
PathCells == {result.path[i] : i \in 1..Len(result.path)}

\* C29: for every solved maze keys_collected holds, once each, exactly
\* the lowercase letters found on the cells of the returned path, and
\* switches_activated is exactly the set of the switch positions on the
\* returned path: nothing collected off the path, nothing on it missing.
C29_CollectedOnPath ==
  Solved =>
    /\ {result.keys_collected[i] : i \in 1..Len(result.keys_collected)}
         = {ch \in {CellAt(grid, p) : p \in PathCells} : IsLower(ch)}
    /\ \A i, j \in 1..Len(result.keys_collected) :
         result.keys_collected[i] = result.keys_collected[j] => i = j
    /\ result.switches_activated = {p \in PathCells : CellAt(grid, p) = "s"}

\* a maze solved over a key cell, its switch stepped on by the search but
\* left off the returned path
C29_Witness ==
  /\ Solved
  /\ \E i \in 1..Len(result.keys_collected) : result.keys_collected[i] # "s"
  /\ CellsOf(grid, "s") \ PathCells # {}
  /\ result.strategic_usage.switches_activated >= 1

(***************************************************************************)
(* Order of the size checks of the parser                                  *)
(***************************************************************************)
\* C30: the size checks run in the order rows, columns, total cells, all
\* of them before normalization and character validation: rows beyond
\* MAX_ROWS are reported as too tall whatever their width and characters,
\* a row beyond MAX_COLS in at most MAX_ROWS rows as too wide whatever the
\* characters; and as MAX_CELLS = MAX_ROWS x MAX_COLS, rows within both
\* limits are within the cell limit, so that no input is ever rejected as
\* having too many cells.
C30_SizeChecksOrdered ==
  /\ MAX_CELLS = MAX_ROWS * MAX_COLS
  /\ \A n \in 0..MAX_ROWS : \A w \in 0..MAX_COLS : n * w <= MAX_CELLS
  /\ pc = "done" =>
       LET rows == ExtractedRows(text)
       IN /\ IsErrorReport => report.error # "too_large"
          /\ Len(rows) > MAX_ROWS =>
               (ParseFailed /\ report.error = "too_tall")
          /\ (Len(rows) > 0 /\ Len(rows) <= MAX_ROWS /\ MaxWidth(rows) > MAX_COLS) =>
               (ParseFailed /\ report.error = "too_wide")
          /\ (Len(rows) > 0 /\ Len(rows) <= MAX_ROWS /\ MaxWidth(rows) <= MAX_COLS) =>
               (IsErrorReport => report.error \notin {"too_tall", "too_wide", "too_large"})

\* a text that is too tall, and too wide or with a character outside the
\* alphabet as well, has been rejected as too tall
C30_Witness ==
  /\ pc = "done" /\ IsErrorReport /\ report.error = "too_tall"
  /\ \/ MaxWidth(ExtractedRows(text)) > MAX_COLS
     \/ HasInvalid(ExtractedRows(text))

====
